---------------------------- MODULE Spec2Model ----------------------------
(***************************************************************************)
(* Model of the front-end controllers of The Flare Initiative:             *)
(*   - BarraNavegacion (src/scripts/components/navbar.js)                  *)
(*   - FadeEffect      (src/scripts/components/fadeEffect.js)              *)
(*   - AnimacionesScroll (src/scripts/components/scrollAnimations.js)      *)
(* The browser is modelled by its event loop: DOM events dispatched to the *)
(* listeners that are attached, pending setTimeout timers and pending      *)
(* requestAnimationFrame callbacks.  Every handler is one atomic action    *)
(* (JavaScript runs a handler to completion).                              *)
(***************************************************************************)
EXTENDS Integers, FiniteSets, Sequences, TLC

(* ------------------------------ bounds -------------------------------- *)
MaxNavItems == 2
MaxLangItems == 1
MaxInits == 2
TickMs == 400
MaxStarts == 2
MaxTime == 6
Scale == 2
MaxEls == 2
ViewportHeight == 10

(* ------------------------- program constants -------------------------- *)
SuppressMs == 800

Keys == {"Enter", " ", "Tab"}

IsActivationKey(k) == k = "Enter" \/ k = " "

VARIABLES
  page,      \* the document: which elements the selectors match (fixed)
  cls,       \* CSS classes and aria-expanded attributes of the elements
  act,       \* nav items carrying "item--active"
  lst,       \* event listeners attached to the elements, document, window
  self,      \* the fields of the BarraNavegacion instance
  timers,    \* pending setTimeout timers: <<id, remaining ms>>
  frames,    \* ids of pending requestAnimationFrame callbacks
  phase,     \* lifecycle position of the controller
  inits,     \* number of init() calls made (bounded by MaxInits)
  clock,     \* history: time since the most recent nav-item activation
  scrollLog, \* history: scroll events waiting for the pending frame
  hist       \* history: the last operation, with what it found and did

navVars == <<page, cls, act, lst, self, timers, frames, phase, inits,
             clock, scrollLog, hist>>

VARIABLES
  fcfg,      \* FadeEffect: the options and the page it is constructed on
  fade,      \* the fields of the FadeEffect instance
  style,     \* inline style of the target element: opacity, will-change
  fframes,   \* pending requestAnimationFrame callbacks (step closures)
  fnext,     \* the id the next requestAnimationFrame call returns
  fnow,      \* current time, in units of 1/Scale ms
  doc,       \* document.readyState and the DOMContentLoaded listener
  fhist      \* history: the last operation and what the frame computed

fadeVars == <<fcfg, fade, style, fframes, fnext, fnow, doc, fhist>>

VARIABLES
  rcfg,      \* scroll-reveal: options and platform (observarUnaVez, autoInit,
             \* reduced motion preferred, IntersectionObserver available)
  dom,       \* the elements that match the selector now
  rtop,      \* getBoundingClientRect().top of every element
  rcls,      \* the elements that carry claseActiva
  rwill,     \* the elements whose style.willChange is set
  rself,     \* the controller's fields
  rlst,      \* number of scroll/resize listener pairs on the window
  rframes,   \* pending animation-frame callbacks of handleScroll
  robs,      \* observations <<observer, element>> of connected observers
  rphase,    \* "constructed", "active" or "destroyed"
  twin,      \* history: the same controller with the opposite
             \* observarUnaVez under the same events (polling strategy)
  rhist      \* history: the last operation

revealVars == <<rcfg, dom, rtop, rcls, rwill, rself, rlst, rframes, robs,
                rphase, twin, rhist>>

vars == <<navVars, fadeVars, revealVars>>

(* ------------------------------ helpers ------------------------------- *)
Max(a, b) == IF a >= b THEN a ELSE b

Min(a, b) == IF a <= b THEN a ELSE b

RECURSIVE FreshFrom(_, _)
FreshFrom(i, used) == IF i \in used THEN FreshFrom(i + 1, used) ELSE i

\* setTimeout / requestAnimationFrame return a positive id no live handle has
FreshId(used) == FreshFrom(1, used)

TimerIds(ts) == {t[1] : t \in ts}

(* --------------------------- the document ----------------------------- *)
\* the page with every element the selectors look for
FullPage ==
  [header |-> TRUE, burger |-> TRUE, nav |-> TRUE, nNav |-> MaxNavItems,
   langMenu |-> TRUE, langList |-> TRUE, nLang |-> MaxLangItems]

\* the pages considered: the full page, and the full page with one of the
\* queried elements (or collections) missing
Pages ==
  {FullPage,
   [FullPage EXCEPT !.header = FALSE],
   [FullPage EXCEPT !.burger = FALSE],
   [FullPage EXCEPT !.nav = FALSE],
   [FullPage EXCEPT !.nNav = 0],
   [FullPage EXCEPT !.langMenu = FALSE],
   [FullPage EXCEPT !.langList = FALSE, !.nLang = 0]}

NavItemsOf(p) == 1..p.nNav

LangItemsOf(p) == 1..p.nLang

NoClasses ==
  [burgerActive |-> FALSE, navActive |-> FALSE, headerActive |-> FALSE,
   burgerAria |-> "unset",
   langListActive |-> FALSE, langMenuActive |-> FALSE, langAria |-> "unset"]

NoListeners ==
  [burgerClick |-> FALSE, burgerKey |-> FALSE,
   langMenuClick |-> FALSE, langMenuKey |-> FALSE,
   docClick |-> FALSE, scroll |-> FALSE,
   navClick |-> FALSE, navKey |-> 0,
   langClick |-> FALSE, langKey |-> 0]

(* ---------------------------- constructor ----------------------------- *)
\* constructor: every element reference null, flags cleared
Constructed ==
  [header |-> FALSE, burger |-> FALSE, nav |-> FALSE,
   langMenu |-> FALSE, langList |-> FALSE,
   navItemsNull |-> TRUE, navItems |-> {},
   langItemsNull |-> TRUE, langItems |-> {},
   permiteClickReciente |-> FALSE, clickTimeout |-> 0, rafScroll |-> 0,
   handlers |-> FALSE]

\* The mutable state a handler works on, bundled so that handlers compose.
\* threw: the running function raised (TypeError on a null reference);
\* stopped: the event's propagation was stopped.
Bundle(c, a, l, s, t, f) ==
  [cls |-> c, act |-> a, lst |-> l, self |-> s, timers |-> t, frames |-> f,
   threw |-> FALSE, stopped |-> FALSE, raised |-> FALSE, ran |-> 0]

Throw(s) == [s EXCEPT !.threw = TRUE]

(* ------------------------------ methods ------------------------------- *)
\* toggleMenuElements: toggles the three classes in order, mirrors aria
ToggleMenuElements(s) ==
  IF s.threw THEN s
  ELSE IF ~s.self.burger THEN Throw(s)
  ELSE LET b  == ~s.cls.burgerActive
           s1 == [s EXCEPT !.cls.burgerActive = b]
       IN IF ~s.self.nav THEN Throw(s1)
          ELSE LET s2 == [s1 EXCEPT !.cls.navActive = ~@]
               IN IF ~s.self.header THEN Throw(s2)
                  ELSE [s2 EXCEPT !.cls.headerActive = ~@,
                                  !.cls.burgerAria =
                                     IF b THEN "true" ELSE "false"]

\* closeLangMenu
CloseLangMenu(s) ==
  IF s.threw THEN s
  ELSE IF ~s.self.langMenu THEN s
  ELSE [s EXCEPT !.cls.langListActive =
                     IF s.self.langList THEN FALSE ELSE @,
                 !.cls.langMenuActive = FALSE,
                 !.cls.langAria = "false"]

\* toggleLangMenu
ToggleLangMenu(s) ==
  IF s.threw THEN s
  ELSE IF ~s.self.langMenu THEN s
  ELSE LET expanded == ~s.cls.langMenuActive
       IN [s EXCEPT !.cls.langListActive =
                        IF s.self.langList THEN ~@ ELSE @,
                    !.cls.langMenuActive = expanded,
                    !.cls.langAria = IF expanded THEN "true" ELSE "false"]

\* deactivateAllNavItems that leaves the classes in place
DeactivateNothing(s) ==
  IF s.threw THEN s
  ELSE IF s.self.navItemsNull THEN Throw(s)
  ELSE s

\* deactivateAllNavItems: this.navItems.forEach(remove "item--active")
DeactivateAllNavItems(s) ==
  IF s.threw THEN s
  ELSE IF s.self.navItemsNull THEN Throw(s)
  ELSE [s EXCEPT !.act = @ \ s.self.navItems]

\* onBurgerClick
OnBurgerClick(s) == CloseLangMenu(ToggleMenuElements(s))

\* onBurgerKeyDown
OnBurgerKeyDown(s, k) == IF IsActivationKey(k) THEN OnBurgerClick(s) ELSE s

\* onLangMenuClick: toggle, then e.stopPropagation()
OnLangMenuClick(s) ==
  LET r == ToggleLangMenu(s)
  IN IF r.threw THEN r ELSE [r EXCEPT !.stopped = TRUE]

\* onLangMenuKeyDown
OnLangMenuKeyDown(s, k) ==
  IF IsActivationKey(k) THEN OnLangMenuClick(s) ELSE s

\* onDocumentClick; target is where the click landed relative to the
\* language list and its trigger: "outside", "list" or "menu"
OnDocumentClick(s, target) ==
  IF s.self.langList /\ s.self.langMenu /\ s.cls.langListActive
  THEN IF target = "outside" THEN CloseLangMenu(s) ELSE s
  ELSE s

\* onNavItemClick's first lines without the clearTimeout of the old timer
NavClickArmKeepsTimer(s) == [s EXCEPT !.self.permiteClickReciente = TRUE]

\* the part of onNavItemClick before the menu toggle: the flag is set and
\* the timer of the previous activation cleared
NavClickArm(s) ==
  [s EXCEPT !.self.permiteClickReciente = TRUE,
            !.timers = IF s.self.clickTimeout # 0
                       THEN {t \in @ : t[1] # s.self.clickTimeout}
                       ELSE @]

\* the setTimeout at the end of onNavItemClick
NavClickSetTimer(s) ==
  IF s.threw THEN s
  ELSE LET id == FreshId(TimerIds(s.timers) \cup {s.self.clickTimeout})
       IN [s EXCEPT !.self.clickTimeout = id,
                    !.timers = @ \cup {<<id, SuppressMs>>}]

\* item.classList.toggle("item--active")
ToggleItem(s, i) ==
  IF s.threw THEN s
  ELSE [s EXCEPT !.act = IF i \in @ THEN @ \ {i} ELSE @ \cup {i}]

\* onNavItemClick
OnNavItemClick(s, i) ==
  NavClickSetTimer(
    ToggleItem(DeactivateAllNavItems(ToggleMenuElements(NavClickArm(s))), i))

\* onLangItemClick: toggle, then e.stopPropagation()
OnLangItemClick(s) ==
  LET r == ToggleLangMenu(s)
  IN IF r.threw THEN r ELSE [r EXCEPT !.stopped = TRUE]

\* onWindowScroll: at most one frame is requested while rafScroll is set
OnWindowScroll(s) ==
  IF s.self.rafScroll # 0 THEN s
  ELSE LET id == FreshId(s.frames)
       IN [s EXCEPT !.self.rafScroll = id, !.frames = @ \cup {id}]

\* the callback handed to requestAnimationFrame by onWindowScroll
ScrollFrameCallback(s) ==
  LET r == IF ~s.self.permiteClickReciente
           THEN DeactivateAllNavItems(s) ELSE s
  IN IF r.threw THEN r ELSE [r EXCEPT !.self.rafScroll = 0]

\* the callback handed to setTimeout by onNavItemClick
ClickTimeoutCallback(s) == [s EXCEPT !.self.permiteClickReciente = FALSE]


\* init that does not require a nav item
InitMethodWithoutItems(s, p) ==
  LET f == [s.self EXCEPT !.header = p.header, !.burger = p.burger,
                          !.nav = p.nav, !.langMenu = p.langMenu,
                          !.langList = p.langList,
                          !.navItemsNull = FALSE, !.navItems = NavItemsOf(p),
                          !.langItemsNull = FALSE, !.langItems = LangItemsOf(p)]
      s1 == [s EXCEPT !.self = f]
  IN IF ~f.burger \/ ~f.nav \/ ~f.header
     THEN s1
     ELSE [s1 EXCEPT
             !.cls.burgerAria = "false",
             !.self.handlers = TRUE,
             !.lst = [@ EXCEPT !.burgerClick = TRUE, !.burgerKey = TRUE,
                               !.docClick = TRUE, !.scroll = TRUE]]

\* init: query the elements; abort unless the required ones exist;
\* otherwise initialise aria-expanded and attach the listeners
\* (setupEventListeners).  The keydown listeners of the items are anonymous
\* closures, so each init adds one more per item.
InitMethod(s, p) ==
  LET f == [s.self EXCEPT !.header = p.header, !.burger = p.burger,
                          !.nav = p.nav, !.langMenu = p.langMenu,
                          !.langList = p.langList,
                          !.navItemsNull = FALSE, !.navItems = NavItemsOf(p),
                          !.langItemsNull = FALSE, !.langItems = LangItemsOf(p)]
      s1 == [s EXCEPT !.self = f]
  IN IF ~f.burger \/ ~f.nav \/ ~f.header \/ f.navItems = {}
     THEN s1
     ELSE [s1 EXCEPT
             !.cls.burgerAria = "false",
             !.cls.langAria = IF f.langMenu THEN "false" ELSE @,
             !.self.handlers = TRUE,
             !.lst = [@ EXCEPT
                        !.burgerClick = TRUE, !.burgerKey = TRUE,
                        !.langMenuClick = IF f.langMenu THEN TRUE ELSE @,
                        !.langMenuKey = IF f.langMenu THEN TRUE ELSE @,
                        !.docClick = TRUE,
                        !.navClick = TRUE, !.navKey = @ + 1,
                        !.langClick = IF f.langItems # {} THEN TRUE ELSE @,
                        !.langKey = IF f.langItems # {} THEN @ + 1 ELSE @,
                        !.scroll = TRUE]]

\* whether init() found every required element
InitSucceeds(p) == p.burger /\ p.nav /\ p.header /\ p.nNav > 0

\* destroy: remove the listeners kept in _handlers and on the items, clear
\* the timer and the frame, reset the references.  navItems.forEach raises
\* on the null navItems of a controller that was never initialised.
Destroy(s) ==
  LET h  == s.self.handlers
      l1 == [s.lst EXCEPT
               !.burgerClick = IF s.self.burger /\ h THEN FALSE ELSE @,
               !.burgerKey = IF s.self.burger /\ h THEN FALSE ELSE @,
               !.langMenuClick = IF s.self.langMenu /\ h THEN FALSE ELSE @,
               !.langMenuKey = IF s.self.langMenu /\ h THEN FALSE ELSE @,
               !.docClick = IF h THEN FALSE ELSE @,
               !.scroll = IF h THEN FALSE ELSE @]
      s1 == [s EXCEPT !.lst = l1]
  IN IF s.self.navItemsNull THEN Throw(s1)
     ELSE LET s2 == [s1 EXCEPT
                       !.lst.navClick =
                          IF s.self.navItems # {} THEN FALSE ELSE @]
          IN IF s.self.langItemsNull THEN Throw(s2)
             ELSE [s2 EXCEPT
                     !.lst.langClick =
                        IF s.self.langItems # {} THEN FALSE ELSE @,
                     !.timers = IF s.self.clickTimeout # 0
                                THEN {t \in @ : t[1] # s.self.clickTimeout}
                                ELSE @,
                     !.frames = IF s.self.rafScroll # 0
                                THEN @ \ {s.self.rafScroll} ELSE @,
                     !.self = [@ EXCEPT
                                 !.header = FALSE, !.burger = FALSE,
                                 !.navItems = {}, !.nav = FALSE,
                                 !.langMenu = FALSE, !.langItems = {},
                                 !.langList = FALSE, !.handlers = FALSE]]

(* --------------------------- event dispatch --------------------------- *)
\* the state the next handler starts from
Cur == Bundle(cls, act, lst, self, timers, frames)

\* one listener (or callback) has run: an exception ends that listener only
Call(r) ==
  [r EXCEPT !.raised = @ \/ r.threw, !.threw = FALSE, !.ran = @ + 1]

\* a keydown on nav item i runs every keydown listener attached to it
RECURSIVE NavKeyRun(_, _, _, _)
NavKeyRun(s, i, k, n) ==
  IF n = 0 \/ ~IsActivationKey(k) THEN s
  ELSE NavKeyRun(Call(OnNavItemClick(s, i)), i, k, n - 1)

\* a keydown on a language item runs every keydown listener attached to it
RECURSIVE LangKeyRun(_, _, _)
LangKeyRun(s, k, n) ==
  IF n = 0 \/ ~IsActivationKey(k) THEN s
  ELSE LangKeyRun(Call(OnLangItemClick(s)), k, n - 1)

\* a click bubbles to the document unless its propagation was stopped
Bubble(s, target) ==
  IF s.lst.docClick /\ ~s.stopped
  THEN Call(OnDocumentClick(s, target)) ELSE s

\* history of the last operation: which one, on which item, whether it ran
\* the handler of the controller and whether that raised; toggles counts
\* the burger toggles made since the state right after a successful init()
\* when nothing else has happened since (and is -1 otherwise); seq is 1
\* right after a successful init(), 2 when a scroll event was the next
\* thing to happen and 3 when a rendered frame followed that (0 otherwise)
NoHist ==
  [op |-> "none", arg |-> 0, ran |-> FALSE, raised |-> FALSE,
   toggles |-> 0 - 1, seq |-> 0]

Record(op, arg, r) ==
  [op |-> op, arg |-> arg, ran |-> r.ran > 0, raised |-> r.raised,
   toggles |-> 0 - 1, seq |-> 0]

\* history after init()
InitHist(p) ==
  [NoHist EXCEPT !.op = "init", !.ran = TRUE,
                 !.toggles = IF InitSucceeds(p) THEN 0 ELSE 0 - 1,
                 !.seq = IF InitSucceeds(p) THEN 1 ELSE 0]

\* history after a burger event that ran onBurgerClick n times
BurgerHist(r, n) ==
  [Record("burger", 0, r) EXCEPT
     !.toggles = IF n = 1 /\ hist.toggles \in {0, 1}
                 THEN hist.toggles + 1 ELSE 0 - 1]

Commit(r) ==
  /\ cls' = r.cls
  /\ act' = r.act
  /\ lst' = r.lst
  /\ self' = r.self
  /\ timers' = r.timers
  /\ frames' = r.frames


\* history: a run of onNavItemClick restarts the suppression window
ClockReset == [clicked |-> TRUE, since |-> 0]

\* history: the scroll events that are waiting for the pending frame
NoScroll == [early |-> FALSE, late |-> FALSE]

(* ------------------------- initial states ----------------------------- *)
\* new BarraNavegacion({autoInit}) on a page: the constructor, and init()
\* when autoInit is set
NavInit ==
  /\ page \in Pages
  /\ \E autoInit \in BOOLEAN :
       LET s0 == Bundle(NoClasses, {}, NoListeners, Constructed, {}, {})
           s1 == IF autoInit THEN InitMethod(s0, page) ELSE s0
       IN /\ cls = s1.cls
          /\ act = s1.act
          /\ lst = s1.lst
          /\ self = s1.self
          /\ timers = s1.timers
          /\ frames = s1.frames
          /\ phase = IF ~autoInit THEN "constructed"
                     ELSE IF InitSucceeds(page) THEN "ready" ELSE "aborted"
          /\ inits = IF autoInit THEN 1 ELSE 0
          /\ hist = IF autoInit THEN InitHist(page) ELSE NoHist
  /\ clock = [clicked |-> FALSE, since |-> 0]
  /\ scrollLog = NoScroll

(* ------------------------------ actions ------------------------------- *)
\* init() called by the page on a controller that is not initialised
CallInit ==
  /\ phase # "ready"
  /\ inits < MaxInits
  /\ LET r == InitMethod(Cur, page)
     IN /\ Commit(r)
        /\ hist' = InitHist(page)
  /\ phase' = IF InitSucceeds(page) THEN "ready" ELSE "aborted"
  /\ inits' = inits + 1
  /\ UNCHANGED <<fadeVars, revealVars>>
  /\ UNCHANGED <<page, clock, scrollLog>>

\* destroy() called by the page, in any lifecycle state
CallDestroy ==
  /\ LET r == Destroy(Cur)
     IN /\ Commit(r)
        /\ hist' = [NoHist EXCEPT !.op = "destroy", !.ran = TRUE,
                             !.raised = r.threw]
        /\ phase' = IF r.threw THEN phase ELSE "destroyed"
  /\ UNCHANGED <<fadeVars, revealVars>>
  /\ UNCHANGED <<page, inits, clock, scrollLog>>

\* a click on the burger button
ClickBurger ==
  /\ page.burger
  /\ LET s1 == IF lst.burgerClick THEN Call(OnBurgerClick(Cur)) ELSE Cur
         r  == Bubble(s1, "outside")
     IN /\ Commit(r)
        /\ hist' = BurgerHist(r, s1.ran)
  /\ UNCHANGED <<fadeVars, revealVars>>
  /\ UNCHANGED <<page, phase, inits, clock, scrollLog>>

\* a keydown on the burger button
KeyBurger ==
  /\ page.burger
  /\ \E k \in Keys :
       LET r == IF lst.burgerKey THEN Call(OnBurgerKeyDown(Cur, k)) ELSE Cur
       IN /\ Commit(r)
          /\ hist' = BurgerHist(r, IF IsActivationKey(k) THEN r.ran ELSE 0)
  /\ UNCHANGED <<fadeVars, revealVars>>
  /\ UNCHANGED <<page, phase, inits, clock, scrollLog>>

\* a click on the language trigger
ClickLangMenu ==
  /\ page.langMenu
  /\ LET s1 == IF lst.langMenuClick THEN Call(OnLangMenuClick(Cur)) ELSE Cur
         r  == Bubble(s1, "menu")
     IN /\ Commit(r)
        /\ hist' = Record("other", 0, r)
  /\ UNCHANGED <<fadeVars, revealVars>>
  /\ UNCHANGED <<page, phase, inits, clock, scrollLog>>

\* a keydown on the language trigger
KeyLangMenu ==
  /\ page.langMenu
  /\ \E k \in Keys :
       LET r == IF lst.langMenuKey
                THEN Call(OnLangMenuKeyDown(Cur, k)) ELSE Cur
       IN /\ Commit(r)
          /\ hist' = Record("other", 0, r)
  /\ UNCHANGED <<fadeVars, revealVars>>
  /\ UNCHANGED <<page, phase, inits, clock, scrollLog>>

\* a click on nav item i, which then bubbles to the document
ClickNavItem ==
  \E i \in NavItemsOf(page) :
    /\ LET s1 == IF lst.navClick THEN Call(OnNavItemClick(Cur, i)) ELSE Cur
           r  == Bubble(s1, "outside")
       IN /\ Commit(r)
          /\ hist' = [Record("navItem", i, r) EXCEPT !.ran = s1.ran > 0]
    /\ clock' = IF lst.navClick THEN ClockReset ELSE clock
    /\ UNCHANGED <<fadeVars, revealVars>>
    /\ UNCHANGED <<page, phase, inits, scrollLog>>

\* a keydown on nav item i
KeyNavItem ==
  \E i \in NavItemsOf(page), k \in Keys :
    /\ LET r == NavKeyRun(Cur, i, k, lst.navKey)
       IN /\ Commit(r)
          /\ hist' = Record("navItem", i, r)
          /\ clock' = IF r.ran > 0 THEN ClockReset ELSE clock
    /\ UNCHANGED <<fadeVars, revealVars>>
    /\ UNCHANGED <<page, phase, inits, scrollLog>>

\* a click on a language item, which bubbles unless stopped
ClickLangItem ==
  \E j \in LangItemsOf(page) :
    /\ LET s1 == IF lst.langClick THEN Call(OnLangItemClick(Cur)) ELSE Cur
           r  == Bubble(s1, "list")
       IN /\ Commit(r)
          /\ hist' = [Record("langItem", 0, r) EXCEPT !.ran = s1.ran > 0]
    /\ UNCHANGED <<fadeVars, revealVars>>
    /\ UNCHANGED <<page, phase, inits, clock, scrollLog>>

\* a keydown on a language item
KeyLangItem ==
  \E j \in LangItemsOf(page), k \in Keys :
    /\ LET r == LangKeyRun(Cur, k, lst.langKey)
       IN /\ Commit(r)
          /\ hist' = Record("langItem", 0, r)
    /\ UNCHANGED <<fadeVars, revealVars>>
    /\ UNCHANGED <<page, phase, inits, clock, scrollLog>>

\* a click elsewhere in the document
ClickDocument ==
  \E target \in {"outside", "list"} :
    /\ LET r == Bubble(Cur, target)
       IN /\ Commit(r)
          /\ hist' = Record("other", 0, r)
    /\ UNCHANGED <<fadeVars, revealVars>>
    /\ UNCHANGED <<page, phase, inits, clock, scrollLog>>

\* a scroll event on the window
Scroll ==
  /\ LET r == IF lst.scroll THEN Call(OnWindowScroll(Cur)) ELSE Cur
     IN /\ Commit(r)
        /\ hist' = [Record("other", 0, r) EXCEPT
                      !.seq = IF hist.seq = 1 /\ lst.scroll THEN 2 ELSE 0]
        /\ scrollLog' =
             IF r.ran > 0 /\ r.self.rafScroll \in r.frames
             THEN [early |-> scrollLog.early
                               \/ (clock.clicked /\ clock.since < SuppressMs),
                   late  |-> scrollLog.late
                               \/ (clock.clicked /\ clock.since > SuppressMs)]
             ELSE scrollLog
  /\ UNCHANGED <<fadeVars, revealVars>>
  /\ UNCHANGED <<page, phase, inits, clock>>

\* the browser runs a pending animation-frame callback
Frame ==
  \E id \in frames :
    /\ LET s0 == [Cur EXCEPT !.frames = @ \ {id}]
           r  == Call(ScrollFrameCallback(s0))
       IN /\ Commit(r)
          /\ hist' = [Record("frame", 0, r) EXCEPT
                        !.seq = IF hist.seq = 2 THEN 3 ELSE 0]
    /\ scrollLog' = NoScroll
    /\ UNCHANGED <<fadeVars, revealVars>>
    /\ UNCHANGED <<page, phase, inits, clock>>

\* the browser runs a timer that is due
TimerFire ==
  \E t \in timers :
    /\ t[2] = 0
    /\ LET s0 == [Cur EXCEPT !.timers = @ \ {t}]
           r  == Call(ClickTimeoutCallback(s0))
       IN /\ Commit(r)
          /\ hist' = Record("other", 0, r)
    /\ UNCHANGED <<fadeVars, revealVars>>
    /\ UNCHANGED <<page, phase, inits, clock, scrollLog>>

\* time passes; a timer that is due runs before another tick goes by
Tick ==
  /\ \A t \in timers : t[2] > 0
  /\ \/ timers # {}
     \/ clock.clicked /\ clock.since <= SuppressMs
  /\ timers' = {<<t[1], Max(0, t[2] - TickMs)>> : t \in timers}
  /\ clock' = [clock EXCEPT
                 !.since = IF @ > SuppressMs THEN @ ELSE @ + TickMs]
  /\ hist' = [NoHist EXCEPT !.op = "other"]
  /\ UNCHANGED <<fadeVars, revealVars>>
  /\ UNCHANGED <<page, cls, act, lst, self, frames, phase, inits, scrollLog>>

NavNext ==
  \/ CallInit
  \/ CallDestroy
  \/ ClickBurger
  \/ KeyBurger
  \/ ClickLangMenu
  \/ KeyLangMenu
  \/ ClickNavItem
  \/ KeyNavItem
  \/ ClickLangItem
  \/ KeyLangItem
  \/ ClickDocument
  \/ Scroll
  \/ Frame
  \/ TimerFire
  \/ Tick

NavIdle ==
  /\ page = FullPage
  /\ cls = NoClasses
  /\ act = {}
  /\ lst = NoListeners
  /\ self = Constructed
  /\ timers = {}
  /\ frames = {}
  /\ phase = "constructed"
  /\ inits = 0
  /\ clock = [clicked |-> FALSE, since |-> 0]
  /\ scrollLog = NoScroll
  /\ hist = NoHist

(***************************************************************************)
(* FadeEffect.  Times are integers in units of 1/Scale ms, so that         *)
(* durations and frame times below one millisecond exist in the model.     *)
(* A null startTime is 0: the code tests it with !this.startTime only.     *)
(***************************************************************************)
DurationsMs == {0 - 1, 0, 1, 2}

\* the durations passed to the constructor, in units: the whole numbers of
\* milliseconds of DurationsMs, and half a unit below and above 1 ms
Durations ==
  {d * Scale : d \in DurationsMs} \cup {Scale - 1, Scale + 1}

FadeConfigs ==
  [duration : Durations, autoInit : BOOLEAN, exists : BOOLEAN,
   reduced : BOOLEAN, loading : BOOLEAN]

\* opacity as a fraction <<n, d>>; <<0, 0>> is "no inline opacity"
NoOpacity == <<0, 0>>

\* String(progress) for progress = n / d
OpacityOf(n, d) ==
  IF n = 0 THEN <<0, 1>> ELSE IF n = d THEN <<1, 1>> ELSE <<n, d>>

\* the constructor's field assignments: duration = Math.max(0, duration)
FadeConstructed(cfg) ==
  [duration |-> Max(0, cfg.duration), rafId |-> 0, startTime |-> 0,
   element |-> FALSE]

FadeBundle(f, st, fr, nx, d) ==
  [fade |-> f, style |-> st, frames |-> fr, next |-> nx, doc |-> d,
   threw |-> FALSE, raised |-> FALSE, scheduled |-> 0, cleaned |-> 0,
   steps |-> 0, elapsed |-> 0, num |-> 0, den |-> 0]

\* window.requestAnimationFrame(step), assigned to this.rafId
RequestStep(s) ==
  [s EXCEPT !.fade.rafId = s.next, !.frames = @ \cup {s.next},
            !.next = @ + 1, !.scheduled = @ + 1]

\* cleanupStyle that forgets to clear the will-change hint
CleanupStyleKeepsHint(s) ==
  IF ~s.fade.element THEN s
  ELSE [s EXCEPT !.style.opacity = <<1, 1>>, !.cleaned = @ + 1]

\* cleanupStyle
CleanupStyle(s) ==
  IF ~s.fade.element THEN s
  ELSE [s EXCEPT !.style.willChange = "", !.style.opacity = <<1, 1>>,
                 !.cleaned = @ + 1]

\* progress = Math.min(1, elapsed / Math.max(1, this.duration)), as the
\* numerator over the denominator Math.max(1, duration)
ProgressDen(duration) == Max(Scale, duration)

ProgressNum(elapsed, duration) == Min(elapsed, ProgressDen(duration))

\* step(timestamp): one animation-frame callback of the loop
Step(s, ts) ==
  LET start   == IF s.fade.startTime = 0 THEN ts ELSE s.fade.startTime
      elapsed == ts - start
      den     == ProgressDen(s.fade.duration)
      num     == ProgressNum(elapsed, s.fade.duration)
      s1      == [s EXCEPT !.fade.startTime = start, !.steps = @ + 1,
                           !.elapsed = elapsed, !.num = num, !.den = den]
  IN IF ~s.fade.element THEN [s1 EXCEPT !.threw = TRUE]
     ELSE LET s2 == [s1 EXCEPT !.style.opacity = OpacityOf(num, den)]
          IN IF num < den THEN RequestStep(s2) ELSE CleanupStyle(s2)

\* start()
Start(s, cfg) ==
  LET s1 == [s EXCEPT !.fade.element = cfg.exists]
  IN IF ~cfg.exists THEN s1
     ELSE RequestStep([s1 EXCEPT !.style.opacity = <<0, 1>>,
                                 !.style.willChange = "opacity",
                                 !.fade.startTime = 0])

\* init()
FadeInitMethod(s, cfg) ==
  IF cfg.reduced
  THEN IF cfg.exists THEN [s EXCEPT !.style.opacity = <<1, 1>>] ELSE s
  ELSE IF s.doc.loading
       THEN [s EXCEPT !.doc.listeners = @ + 1]
       ELSE Start(s, cfg)

\* destroy()
FadeDestroy(s) ==
  [s EXCEPT !.frames = IF s.fade.rafId # 0 THEN @ \ {s.fade.rafId} ELSE @,
            !.fade.rafId = 0, !.fade.startTime = 0, !.fade.element = FALSE]

\* the DOMContentLoaded listeners ({once: true}), each calling start()
RECURSIVE RunLoaded(_, _, _)
RunLoaded(s, cfg, n) ==
  IF n = 0 THEN s ELSE RunLoaded(Start(s, cfg), cfg, n - 1)

SetMin(S) == CHOOSE x \in S : \A y \in S : x <= y

\* one rendered frame: the callbacks pending when it starts run in the
\* order they were requested, all with the frame's timestamp
RECURSIVE RunSteps(_, _, _)
RunSteps(s, ids, ts) ==
  IF ids = {} THEN s
  ELSE LET id == SetMin(ids)
           r  == Step([s EXCEPT !.frames = @ \ {id}], ts)
       IN RunSteps([r EXCEPT !.raised = @ \/ r.threw, !.threw = FALSE],
                   ids \ {id}, ts)

FadeCur == FadeBundle(fade, style, fframes, fnext, doc)

FadeCommit(r) ==
  /\ fade' = r.fade
  /\ style' = r.style
  /\ fframes' = r.frames
  /\ fnext' = r.next
  /\ doc' = r.doc

\* history: the last operation; for a frame, what its callbacks computed
\* (steps run, elapsed, progress num/den, frames requested, cleanups run);
\* and, since the last start(): frames rendered, cleanups run, and the
\* progress numerator of the frame before; dead: destroy() has been called
\* and the page has not called init() or start() since
NoFadeHist ==
  [op |-> "none", steps |-> 0, elapsed |-> 0, num |-> 0, den |-> 0,
   scheduled |-> 0, cleaned |-> 0, raised |-> FALSE,
   frameNo |-> 0, cleanups |-> 0, prevNum |-> 0, dead |-> FALSE]

\* history after a call of init() or start(), or DOMContentLoaded
StartedHist(op, r) ==
  IF r.scheduled > 0
  THEN [NoFadeHist EXCEPT !.op = op, !.scheduled = r.scheduled]
  ELSE [fhist EXCEPT !.op = op, !.steps = 0, !.scheduled = 0,
                     !.cleaned = 0, !.raised = FALSE]

FadeInit ==
  /\ fcfg \in FadeConfigs
  /\ LET d0 == [loading |-> fcfg.loading, listeners |-> 0, calls |-> 0]
         s0 == FadeBundle(FadeConstructed(fcfg),
                          [opacity |-> NoOpacity, willChange |-> ""],
                          {}, 1, d0)
         s1 == IF fcfg.autoInit THEN FadeInitMethod(s0, fcfg) ELSE s0
     IN /\ fade = s1.fade
        /\ style = s1.style
        /\ fframes = s1.frames
        /\ fnext = s1.next
        /\ doc = s1.doc
        /\ fhist = [NoFadeHist EXCEPT
                      !.op = IF fcfg.autoInit THEN "init" ELSE "none",
                      !.scheduled = s1.scheduled]
  /\ fnow = 0

FadeIdle ==
  /\ fcfg = [duration |-> 0, autoInit |-> FALSE, exists |-> FALSE,
             reduced |-> FALSE, loading |-> FALSE]
  /\ fade = FadeConstructed(fcfg)
  /\ style = [opacity |-> NoOpacity, willChange |-> ""]
  /\ fframes = {}
  /\ fnext = 1
  /\ fnow = 0
  /\ doc = [loading |-> FALSE, listeners |-> 0, calls |-> 0]
  /\ fhist = NoFadeHist

\* init() called by the page
FadeCallInit ==
  /\ doc.calls < MaxStarts
  /\ LET r == FadeInitMethod([FadeCur EXCEPT !.doc.calls = @ + 1], fcfg)
     IN /\ FadeCommit(r)
        /\ fhist' = [StartedHist("init", r) EXCEPT !.dead = FALSE]
  /\ UNCHANGED <<fcfg, fnow>>
  /\ UNCHANGED <<navVars, revealVars>>

\* start() called by the page
FadeCallStart ==
  /\ doc.calls < MaxStarts
  /\ LET r == Start([FadeCur EXCEPT !.doc.calls = @ + 1], fcfg)
     IN /\ FadeCommit(r)
        /\ fhist' = [StartedHist("start", r) EXCEPT !.dead = FALSE]
  /\ UNCHANGED <<fcfg, fnow>>
  /\ UNCHANGED <<navVars, revealVars>>

\* the document becomes interactive: DOMContentLoaded fires once
DomContentLoaded ==
  /\ doc.loading
  /\ LET s0 == [FadeCur EXCEPT !.doc.loading = FALSE, !.doc.listeners = 0]
         r  == RunLoaded(s0, fcfg, doc.listeners)
     IN /\ FadeCommit(r)
        /\ fhist' = [StartedHist("loaded", r) EXCEPT !.dead = fhist.dead]
  /\ UNCHANGED <<fcfg, fnow>>
  /\ UNCHANGED <<navVars, revealVars>>

\* the browser renders a frame d time units later and runs the callbacks
FadeFrame ==
  /\ fframes # {}
  /\ \E d \in 1..(MaxTime - fnow) :
       LET r == RunSteps(FadeCur, fframes, fnow + d)
       IN /\ FadeCommit(r)
          /\ fnow' = fnow + d
          /\ fhist' = [op |-> "frame", steps |-> r.steps,
                       elapsed |-> r.elapsed, num |-> r.num, den |-> r.den,
                       scheduled |-> r.scheduled, cleaned |-> r.cleaned,
                       raised |-> r.raised,
                       frameNo |-> fhist.frameNo + 1,
                       cleanups |-> fhist.cleanups + r.cleaned,
                       prevNum |-> fhist.num, dead |-> fhist.dead]
  /\ UNCHANGED fcfg
  /\ UNCHANGED <<navVars, revealVars>>

\* destroy() called by the page
FadeCallDestroy ==
  /\ LET r == FadeDestroy(FadeCur)
     IN /\ FadeCommit(r)
        /\ fhist' = [fhist EXCEPT !.op = "destroy", !.steps = 0,
                                  !.scheduled = 0, !.cleaned = 0,
                                  !.raised = FALSE, !.dead = TRUE]
  /\ UNCHANGED <<fcfg, fnow>>
  /\ UNCHANGED <<navVars, revealVars>>

FadeNext ==
  \/ FadeCallInit
  \/ FadeCallStart
  \/ DomContentLoaded
  \/ FadeFrame
  \/ FadeCallDestroy

(***************************************************************************)
(* AnimacionesScroll (src/scripts/components/scrollAnimations.js).         *)
(* Elements are 1..MaxEls; dom is the set that matches the selector.  An   *)
(* unset _rafId, observer or _scrollHandler (null) is 0 / FALSE.           *)
(***************************************************************************)
Els == 1..MaxEls

\* the tops an element can have: the largest one that is in view, the next
\* one, the viewport height itself and one past it
Tops ==
  {(ViewportHeight * 4) \div 5, (ViewportHeight * 4) \div 5 + 1,
   ViewportHeight, ViewportHeight + 1}

RevealConfigs ==
  [observarUnaVez : BOOLEAN, autoInit : BOOLEAN, reduced : BOOLEAN,
   hasIO : BOOLEAN]

\* the constructor's field assignments
RevealConstructed ==
  [elementos |-> {}, observer |-> 0, scrollHandler |-> FALSE, rafId |-> 0]

\* the controller with the page and the browser state its handlers touch
RevealBundle(cfg, sf, d, tp, c, w, l, fr, ob) ==
  [once |-> cfg.observarUnaVez, reduced |-> cfg.reduced, hasIO |-> cfg.hasIO,
   self |-> sf, dom |-> d, top |-> tp, cls |-> c, will |-> w, lst |-> l,
   frames |-> fr, obs |-> ob, passes |-> 0]

\* elementInView without the offset: top <= viewportHeight
ElementInViewNoOffset(s, e) == s.top[e] <= ViewportHeight

\* elementInView(el, 1.25): top <= viewportHeight / 1.25
ElementInView(s, e) == s.top[e] * 5 <= ViewportHeight * 4

\* elementOutOfView(el): top > viewportHeight
ElementOutOfView(s, e) == s.top[e] > ViewportHeight

\* displayScrollElement on every element of a set
DisplayScrollElement(s, E) == [s EXCEPT !.cls = @ \cup E]

\* hideScrollElement that honours observarUnaVez
HideScrollElementUnlessOnce(s, E) ==
  IF s.once THEN s ELSE [s EXCEPT !.cls = @ \ E]

\* hideScrollElement on every element of a set
HideScrollElement(s, E) == [s EXCEPT !.cls = @ \ E]

\* the callback handed to requestAnimationFrame by handleScroll: one
\* evaluation pass over elementos
HandleScrollCallback(s) ==
  LET inView == {e \in s.self.elementos : ElementInView(s, e)}
      out    == {e \in s.self.elementos \ inView : ElementOutOfView(s, e)}
      s1     == HideScrollElement(DisplayScrollElement(s, inView), out)
  IN [s1 EXCEPT !.self.rafId = 0, !.passes = @ + 1]

\* handleScroll
HandleScroll(s) ==
  IF s.self.rafId # 0 THEN s
  ELSE LET id == FreshId(s.frames)
       IN [s EXCEPT !.self.rafId = id, !.frames = @ \cup {id}]

\* the IntersectionObserver callback that also hides when observarUnaVez
ObserverCallbackAlwaysHides(s, shown, hidden) ==
  [s EXCEPT !.cls = (@ \cup shown) \ hidden]

\* the IntersectionObserver callback on a batch of entries: shown are the
\* targets reported intersecting, hidden the ones reported not intersecting
ObserverCallback(s, shown, hidden) ==
  LET s1 == [s EXCEPT !.cls = @ \cup shown]
  IN IF s.once
     THEN IF s.self.observer # 0
          THEN [s1 EXCEPT
                  !.obs = @ \ {<<s.self.observer, e>> : e \in shown}]
          ELSE s1
     ELSE [s1 EXCEPT !.cls = @ \ hidden]

\* setupObserver
SetupObserver(s) ==
  LET id == FreshId({o[1] : o \in s.obs})
  IN [s EXCEPT !.self.observer = id,
               !.will = @ \cup s.self.elementos,
               !.obs = @ \cup {<<id, e>> : e \in s.self.elementos}]

\* setupFallback
SetupFallback(s) ==
  [s EXCEPT !.self.scrollHandler = TRUE, !.lst = @ + 1]

\* init that goes on to set up the strategy when reduced motion is preferred
RevealInitIgnoresReduced(s) ==
  LET s1 == [s EXCEPT !.self.elementos = s.dom]
      s2 == IF s.reduced THEN DisplayScrollElement(s1, s1.self.elementos)
            ELSE s1
  IN IF s.hasIO THEN SetupObserver(s2) ELSE HandleScroll(SetupFallback(s2))

\* init
RevealInitMethod(s) ==
  LET s1 == [s EXCEPT !.self.elementos = s.dom]
  IN IF s.reduced THEN DisplayScrollElement(s1, s1.self.elementos)
     ELSE IF s.hasIO THEN SetupObserver(s1)
          ELSE HandleScroll(SetupFallback(s1))

\* destroy that leaves the pending frame callback
RevealDestroyKeepsFrame(s) ==
  [s EXCEPT
     !.obs = {o \in @ : o[1] # s.self.observer},
     !.lst = IF s.self.scrollHandler THEN @ - 1 ELSE @,
     !.will = @ \ s.self.elementos,
     !.self = [elementos |-> {}, observer |-> 0, scrollHandler |-> FALSE,
               rafId |-> @.rafId]]

\* destroy
RevealDestroy(s) ==
  [s EXCEPT
     !.obs = IF s.self.observer # 0
             THEN {o \in @ : o[1] # s.self.observer} ELSE @,
     !.lst = IF s.self.scrollHandler THEN @ - 1 ELSE @,
     !.frames = IF s.self.rafId # 0 THEN @ \ {s.self.rafId} ELSE @,
     !.will = @ \ s.self.elementos,
     !.self = [elementos |-> {}, observer |-> 0, scrollHandler |-> FALSE,
               rafId |-> 0]]

\* refresh that does not tear down first
RefreshWithoutTeardown(s) ==
  RevealInitMethod([s EXCEPT !.self.elementos = s.dom])

\* refresh
Refresh(s) ==
  RevealInitMethod([RevealDestroy(s) EXCEPT !.self.elementos = s.dom])

\* a scroll or resize event runs handleScroll once per attached listener
RECURSIVE RunScrollListeners(_, _)
RunScrollListeners(s, n) ==
  IF n = 0 THEN s ELSE RunScrollListeners(HandleScroll(s), n - 1)

\* one rendered frame runs every pending callback of handleScroll
RECURSIVE RunPasses(_, _)
RunPasses(s, ids) ==
  IF ids = {} THEN s
  ELSE LET id == SetMin(ids)
       IN RunPasses(HandleScrollCallback([s EXCEPT !.frames = @ \ {id}]),
                    ids \ {id})


(* ------------------- scroll-reveal: states and actions ---------------- *)
\* the part of a bundle that is the controller's and the browser's state
Snapshot(b) ==
  [self |-> b.self, cls |-> b.cls, will |-> b.will, lst |-> b.lst,
   frames |-> b.frames, obs |-> b.obs]

\* the state the next handler starts from, with the tops tp
RevealCur(tp) ==
  RevealBundle(rcfg, rself, dom, tp, rcls, rwill, rlst, rframes, robs)

\* the same for the controller with the opposite observarUnaVez
RevealTwin(tp) ==
  RevealBundle([rcfg EXCEPT !.observarUnaVez = ~@], twin.self, dom, tp,
               twin.cls, twin.will, twin.lst, twin.frames, twin.obs)

RevealCommit(r, t) ==
  /\ rcls' = r.cls
  /\ rwill' = r.will
  /\ rself' = r.self
  /\ rlst' = r.lst
  /\ rframes' = r.frames
  /\ robs' = r.obs
  /\ twin' = IF rcfg.hasIO THEN Snapshot(r) ELSE Snapshot(t)

\* history of the last operation: which one; the passes a frame ran and
\* the elements they un-revealed; the targets a notification reported
\* intersecting and not intersecting; the elements a refresh() found that
\* were not tracked before it; what a destroy() had to release
NoRevealHist ==
  [op |-> "none", passes |-> 0, hid |-> {}, shown |-> {}, hidden |-> {},
   fresh |-> {}, released |-> {}]

\* only the polling strategy reads the position of an element
PositionsMatter == ~rcfg.hasIO /\ ~rcfg.reduced

\* new AnimacionesScroll(options) on a page: the constructor, and init()
\* when autoInit is set
RevealInit ==
  /\ rcfg \in RevealConfigs
  /\ dom \in SUBSET Els
  /\ rtop \in [Els -> Tops]
  /\ \A e \in Els : (e \in dom /\ PositionsMatter) \/ rtop[e] = ViewportHeight
  /\ rphase = IF rcfg.autoInit THEN "active" ELSE "constructed"
  /\ rhist = [NoRevealHist EXCEPT
                !.op = IF rcfg.autoInit THEN "init" ELSE "none"]
  /\ LET c0 == RevealBundle(rcfg, RevealConstructed, dom, rtop, {}, {}, 0,
                            {}, {})
         t0 == RevealBundle([rcfg EXCEPT !.observarUnaVez = ~@],
                            RevealConstructed, dom, rtop, {}, {}, 0, {}, {})
         r  == IF rcfg.autoInit THEN RevealInitMethod(c0) ELSE c0
         t  == IF rcfg.autoInit THEN RevealInitMethod(t0) ELSE t0
     IN /\ rcls = r.cls
        /\ rwill = r.will
        /\ rself = r.self
        /\ rlst = r.lst
        /\ rframes = r.frames
        /\ robs = r.obs
        /\ twin = IF rcfg.hasIO THEN Snapshot(r) ELSE Snapshot(t)

\* the page without a scroll-reveal controller in use
RevealIdle ==
  /\ rcfg = [observarUnaVez |-> TRUE, autoInit |-> FALSE, reduced |-> FALSE,
             hasIO |-> FALSE]
  /\ dom = {}
  /\ rtop = [e \in Els |-> ViewportHeight]
  /\ rcls = {}
  /\ rwill = {}
  /\ rself = RevealConstructed
  /\ rlst = 0
  /\ rframes = {}
  /\ robs = {}
  /\ rphase = "constructed"
  /\ twin = [self |-> RevealConstructed, cls |-> {}, will |-> {}, lst |-> 0,
             frames |-> {}, obs |-> {}]
  /\ rhist = NoRevealHist

\* init() called by the page on a controller that is not initialised
RevealCallInit ==
  /\ rphase # "active"
  /\ RevealCommit(RevealInitMethod(RevealCur(rtop)),
                  RevealInitMethod(RevealTwin(rtop)))
  /\ rphase' = "active"
  /\ rhist' = [NoRevealHist EXCEPT !.op = "init"]
  /\ UNCHANGED <<rcfg, dom, rtop>>
  /\ UNCHANGED <<navVars, fadeVars>>

\* refresh() called by the page
RevealCallRefresh ==
  /\ RevealCommit(Refresh(RevealCur(rtop)), Refresh(RevealTwin(rtop)))
  /\ rphase' = "active"
  /\ rhist' = [NoRevealHist EXCEPT !.op = "refresh",
                                   !.fresh = dom \ rself.elementos]
  /\ UNCHANGED <<rcfg, dom, rtop>>
  /\ UNCHANGED <<navVars, fadeVars>>

\* destroy() called by the page, in any lifecycle state
RevealCallDestroy ==
  /\ RevealCommit(RevealDestroy(RevealCur(rtop)),
                  RevealDestroy(RevealTwin(rtop)))
  /\ rphase' = "destroyed"
  /\ rhist' = [NoRevealHist EXCEPT
                  !.op = "destroy",
                  !.released =
                     {x \in {"observer", "listeners", "frame"} :
                        \/ x = "observer" /\ robs # {}
                        \/ x = "listeners" /\ rlst > 0
                        \/ x = "frame" /\ rframes # {}}]
  /\ UNCHANGED <<rcfg, dom, rtop>>
  /\ UNCHANGED <<navVars, fadeVars>>

\* the page scrolls or is laid out again: an element that matches the
\* selector or is tracked moves
ElementMoves ==
  /\ PositionsMatter
  /\ \E e \in dom \cup rself.elementos, t \in Tops :
       /\ rtop[e] # t
       /\ rtop' = [rtop EXCEPT ![e] = t]
  /\ rhist' = [NoRevealHist EXCEPT !.op = "other"]
  /\ UNCHANGED <<rcfg, dom, rcls, rwill, rself, rlst, rframes, robs, rphase,
                 twin>>
  /\ UNCHANGED <<navVars, fadeVars>>

\* the window gets a scroll event
WindowScroll ==
  /\ RevealCommit(RunScrollListeners(RevealCur(rtop), rlst),
                  RunScrollListeners(RevealTwin(rtop), twin.lst))
  /\ rhist' = [NoRevealHist EXCEPT !.op = "other"]
  /\ UNCHANGED <<rcfg, dom, rtop, rphase>>
  /\ UNCHANGED <<navVars, fadeVars>>

\* the window gets a resize event
WindowResize ==
  /\ RevealCommit(RunScrollListeners(RevealCur(rtop), rlst),
                  RunScrollListeners(RevealTwin(rtop), twin.lst))
  /\ rhist' = [NoRevealHist EXCEPT !.op = "other"]
  /\ UNCHANGED <<rcfg, dom, rtop, rphase>>
  /\ UNCHANGED <<navVars, fadeVars>>

\* the browser renders a frame and runs the pending callbacks
RevealFrame ==
  /\ rframes \cup twin.frames # {}
  /\ LET r == RunPasses(RevealCur(rtop), rframes)
         t == RunPasses(RevealTwin(rtop), twin.frames)
     IN /\ RevealCommit(r, t)
        /\ rhist' = [NoRevealHist EXCEPT !.op = "frame", !.passes = r.passes,
                                         !.hid = rcls \ r.cls]
  /\ UNCHANGED <<rcfg, dom, rtop, rphase>>
  /\ UNCHANGED <<navVars, fadeVars>>

\* a connected observer delivers a batch of entries for targets it observes
Notify ==
  /\ \E o \in {x[1] : x \in robs} :
       \E shown \in SUBSET {x[2] : x \in {y \in robs : y[1] = o}} :
         \E hidden \in SUBSET ({x[2] : x \in {y \in robs : y[1] = o}}
                                 \ shown) :
           /\ shown \cup hidden # {}
           /\ RevealCommit(ObserverCallback(RevealCur(rtop), shown, hidden),
                           ObserverCallback(RevealTwin(rtop), shown, hidden))
           /\ rhist' = [NoRevealHist EXCEPT !.op = "notify",
                                            !.shown = shown,
                                            !.hidden = hidden]
  /\ UNCHANGED <<rcfg, dom, rtop, rphase>>
  /\ UNCHANGED <<navVars, fadeVars>>

\* content is injected: one more element matches the selector
ElementAdded ==
  /\ \E e \in Els \ dom : dom' = dom \cup {e}
  /\ rhist' = [NoRevealHist EXCEPT !.op = "other"]
  /\ UNCHANGED <<rcfg, rtop, rcls, rwill, rself, rlst, rframes, robs, rphase,
                 twin>>
  /\ UNCHANGED <<navVars, fadeVars>>

\* an element stops matching the selector
ElementRemoved ==
  /\ \E e \in dom : dom' = dom \ {e}
  /\ rhist' = [NoRevealHist EXCEPT !.op = "other"]
  /\ UNCHANGED <<rcfg, rtop, rcls, rwill, rself, rlst, rframes, robs, rphase,
                 twin>>
  /\ UNCHANGED <<navVars, fadeVars>>

RevealNext ==
  \/ RevealCallInit
  \/ RevealCallRefresh
  \/ RevealCallDestroy
  \/ ElementMoves
  \/ WindowScroll
  \/ WindowResize
  \/ RevealFrame
  \/ Notify
  \/ ElementAdded
  \/ ElementRemoved

(* --------------------------- specifications --------------------------- *)
\* the navigation controller on its page
Init == NavInit /\ FadeIdle /\ RevealIdle

Spec == Init /\ [][NavNext]_vars

\* the fade controller on its page
FadeSpecInit == FadeInit /\ NavIdle /\ RevealIdle

FadeSpec == FadeSpecInit /\ [][FadeNext]_vars

\* the scroll-reveal controller on its page
RevealSpecInit == RevealInit /\ NavIdle /\ FadeIdle

RevealSpec == RevealSpecInit /\ [][RevealNext]_vars

(***************************************************************************)
(* Properties of the navigation controller (checked under Spec).           *)
(***************************************************************************)
MenuClosed ==
  /\ ~cls.burgerActive
  /\ ~cls.navActive
  /\ ~cls.headerActive
  /\ cls.burgerAria = "false"

LangClosed ==
  /\ ~cls.langListActive
  /\ ~cls.langMenuActive
  /\ page.langMenu => cls.langAria = "false"

\* the last operation was a nav-item activation whose handler ran through
NavActivated == hist.op = "navItem" /\ hist.ran /\ ~hist.raised

\* C1: after the nav-item activation handler has run, the burger menu is
\* closed (no menu-open class on burger, nav container and header, and
\* aria-expanded "false"), whether the menu was open or closed before.
C1_ActivationClosesMenu == NavActivated => MenuClosed

\* C2 as stated: the frame callback of a scroll event that occurred less
\* than 800 ms after the most recent click never clears the active item,
\* and the frame callback of a scroll event that occurred more than 800 ms
\* after the most recent click leaves every nav item inactive.
C2_ScrollTimeDecides ==
  [][hist'.op = "frame" =>
       /\ scrollLog.early => (act # {} => act' = act)
       /\ scrollLog.late => act' = {}]_vars

\* C2 amended: what decides is the moment the frame callback runs.  A frame
\* callback that runs less than 800 ms after the most recent nav-item
\* activation never clears the active item, whenever its scroll event
\* occurred; a frame callback that runs while the suppression flag is clear
\* (its timer has fired) leaves every nav item inactive; and the flag stays
\* set for the 800 ms that follow an activation.
C2_FrameTimeDecides ==
  /\ [](clock.clicked /\ clock.since < SuppressMs
          => self.permiteClickReciente)
  /\ [][hist'.op = "frame" =>
          /\ (clock.clicked /\ clock.since < SuppressMs) => act' = act
          /\ ~self.permiteClickReciente => act' = {}]_vars

\* C2 witness: a frame callback has run inside the suppression window, after
\* time has passed since the activation, and the item is still active
C2_Witness ==
  /\ hist.op = "frame"
  /\ clock.clicked
  /\ clock.since > 0
  /\ clock.since < SuppressMs
  /\ act # {}

\* C3: right after a nav-item activation exactly one nav item is active,
\* the activated one, and in every reachable state at most one nav item is
\* active.
C3_ExactlyOneActive ==
  /\ Cardinality(act) <= 1
  /\ NavActivated => act = {hist.arg}

\* C3 witness: the second nav item has just been activated, after an
\* earlier activation, on a page with several items
C3_Witness ==
  /\ NavActivated
  /\ hist.arg > 1
  /\ act = {hist.arg}
  /\ self.clickTimeout > 1

\* C4: after destroy() no listener of the controller is attached anywhere
\* and no frame callback or suppression timer is pending.
C4_DestroyDetachesAll ==
  phase = "destroyed" => (lst = NoListeners /\ frames = {} /\ timers = {})

\* C5: destroy() completes without raising an error in every lifecycle
\* state.
C5_DestroyNeverRaises == hist.op = "destroy" => ~hist.raised

\* C6: whenever an operation takes the burger menu from closed to open, the
\* language dropdown is closed in the resulting state.
C6_OpeningClosesLang ==
  [][(~cls.burgerActive /\ cls'.burgerActive)
       => (~cls'.langListActive /\ ~cls'.langMenuActive
           /\ cls'.langAria # "true")]_vars

\* C7: after a language item is activated the language dropdown is closed,
\* whether it was open or closed before.
C7_LangItemCloses == (hist.op = "langItem" /\ hist.ran) => LangClosed

\* C8: starting right after a successful init(), two consecutive burger
\* toggles leave aria-expanded "false" and none of the three menu-open
\* classes.
C8_DoubleToggleRestores == hist.toggles = 2 => MenuClosed

\* C17: an init() that does not find the header, the burger, the nav
\* container or any nav item attaches no listener, schedules no callback
\* and changes no class or attribute; and as long as the controller stays
\* in that state no event changes a class or attribute.
C17_InitAllOrNothing ==
  /\ [](phase = "aborted" => (lst = NoListeners /\ frames = {} /\ timers = {}))
  /\ [][phase' = "aborted"
          => (cls' = cls /\ act' = act /\ lst' = lst
              /\ frames' = frames /\ timers' = timers)]_vars

\* C17 witness: on a page that has the burger but lacks another required
\* element, init() has aborted and the burger has then been clicked without
\* any handler running
C17_Witness ==
  /\ phase = "aborted"
  /\ page.burger
  /\ hist.op = "burger"
  /\ ~hist.ran
  /\ cls = NoClasses

\* C19: each controller has at most one animation-frame callback of its
\* scroll (scroll/resize) handler outstanding, and after a scroll (or
\* resize) event that reached the controller's listener exactly one is
\* outstanding, so every burst of events is followed by one pass.
C19_FrameCoalescing ==
  /\ [](Cardinality(frames) <= 1 /\ Cardinality(rframes) <= 1)
  /\ [][(lst.scroll /\ Scroll) => Cardinality(frames') = 1]_vars
  /\ [][(rlst > 0 /\ (WindowScroll \/ WindowResize))
          => Cardinality(rframes') = 1]_vars

\* C21: after every successful init(), also one that follows a destroy(),
\* a scroll event that comes next leaves a frame callback of the scroll
\* handler pending, and when that callback runs next it leaves every nav
\* item inactive.
C21_ReinitScrollsLikeFresh ==
  /\ hist.seq = 2 => (frames # {} /\ self.rafScroll \in frames)
  /\ hist.seq = 3 => act = {}

(***************************************************************************)
(* Properties of the fade controller (checked under FadeSpec).             *)
(***************************************************************************)
\* the last operation was a frame in which one callback ran, to completion
OneStepFrame == fhist.op = "frame" /\ fhist.steps = 1 /\ ~fhist.raised

Settled ==
  /\ fhist.num = fhist.den
  /\ fhist.cleaned = 1
  /\ fhist.scheduled = 0
  /\ style.willChange = ""
  /\ style.opacity = <<1, 1>>

\* C9: with a configured duration <= 0 the first frame callback after
\* start() sets progress to 1, runs the cleanup and schedules no frame.
C9_ZeroSettlesFirstFrame ==
  (OneStepFrame /\ fcfg.duration <= 0 /\ fhist.frameNo = 1) => Settled

\* C10 as stated: for every duration D > 0, the frame callback whose elapsed
\* time equals D computes progress 1, cleans up once and schedules nothing.
C10_ElapsedEqualsDuration ==
  (OneStepFrame /\ fcfg.duration > 0 /\ fhist.elapsed = fcfg.duration)
     => Settled

\* C10 amended: for every duration D >= 1 ms, the frame callback whose
\* elapsed time equals D computes progress exactly 1, runs the cleanup once
\* (will-change cleared, opacity exactly 1) and schedules no further frame;
\* while progress < 1 exactly one next frame is scheduled and nothing is
\* cleaned up; progress never decreases from one frame to the next.
C10_ElapsedEqualsDurationFrom1ms ==
  OneStepFrame =>
    /\ (fcfg.duration >= Scale /\ fhist.elapsed = fcfg.duration)
          => (Settled /\ fhist.cleanups = 1)
    /\ fhist.num < fhist.den
          => (fhist.scheduled = 1 /\ fhist.cleaned = 0 /\ fframes # {})
    /\ fhist.frameNo > 1 => fhist.num >= fhist.prevNum

\* C10 witness: a later frame of a fade of at least 1 ms whose elapsed time
\* is exactly the duration
C10_Witness ==
  /\ OneStepFrame
  /\ fcfg.duration >= Scale
  /\ fhist.elapsed = fcfg.duration
  /\ fhist.frameNo > 1
  /\ fhist.prevNum > 0
  /\ fhist.num = fhist.den

\* C11: once destroy() has returned (and until the page calls init() or
\* start() again) no animation-frame callback of the controller is pending,
\* no later step schedules one or changes the element's inline style, and a
\* second destroy() changes nothing.
C11_DestroyStopsFade ==
  /\ [](fhist.dead => fframes = {})
  /\ [][(fhist.dead /\ fhist'.dead)
          => (style' = style /\ fframes' = {} /\ fade' = fade)]_vars

\* C22: in every reachable state at most one animation-frame callback of
\* the fade controller is outstanding and rafId names it; none is
\* outstanding once destroy() has returned; and the cleanup has run at most
\* once since the last start().
C22_SingleOutstandingFrame ==
  /\ Cardinality(fframes) <= 1
  /\ fframes # {} => fframes = {fade.rafId}
  /\ fhist.dead => fframes = {}
  /\ fhist.cleanups <= 1

(***************************************************************************)
(* Properties of the scroll-reveal controller (checked under RevealSpec).  *)
(***************************************************************************)
\* top <= viewportHeight / 1.25
TopInView(e) == rtop[e] * 5 <= ViewportHeight * 4

\* top > viewportHeight
TopBelow(e) == rtop[e] > ViewportHeight

\* the step is a rendered frame that ran an evaluation pass
PassRan == rhist'.op = "frame" /\ rhist'.passes > 0

\* C12: in each evaluation pass of the polling strategy, a tracked element
\* with top <= viewportHeight/1.25 ends the pass revealed, one with
\* top > viewportHeight ends it not revealed, and one in between keeps the
\* revealed state it had before the pass.
C12_PollingThresholds ==
  [][PassRan =>
       \A e \in rself.elementos :
         /\ TopInView(e) => e \in rcls'
         /\ TopBelow(e) => e \notin rcls'
         /\ (~TopInView(e) /\ ~TopBelow(e)) => (e \in rcls' <=> e \in rcls)]_vars

\* C12 witness: a pass has run that left a revealed element between the
\* two thresholds revealed and left an element below the viewport unrevealed
C12_Witness ==
  /\ rhist.op = "frame"
  /\ rhist.passes = 1
  /\ \E e \in rself.elementos :
       ~TopInView(e) /\ ~TopBelow(e) /\ e \in rcls
  /\ \E e \in rself.elementos : TopBelow(e) /\ e \notin rcls

\* the targets observed by a connected observer
Observed == {o[2] : o \in robs}

C14_InitRevealsInView ==
  (rhist.op = "init" /\ PositionsMatter)
     => \A e \in rself.elementos : TopInView(e) => e \in rcls

C18_ReducedMotionStatic ==
  /\ [](rcfg.reduced =>
          /\ robs = {} /\ rself.observer = 0
          /\ rlst = 0 /\ ~rself.scrollHandler
          /\ rframes = {} /\ rself.rafId = 0
          /\ rhist.op \in {"init", "refresh"}
                => (rself.elementos = dom /\ dom \subseteq rcls))
  /\ [][(rcfg.reduced /\ rhist'.op \notin {"init", "refresh"})
          => rcls' = rcls]_vars

\* C18 witness: with reduced motion, after init() revealed the matched
\* elements a scroll or resize event has occurred
C18_Witness ==
  /\ rcfg.reduced
  /\ rphase = "active"
  /\ rhist.op = "other"
  /\ rcls = dom
  /\ Cardinality(dom) > 1

\* C20: polling strategy: under the same events the controller with the
\* opposite observarUnaVez is in the same state, in particular has the same
\* elements revealed; and a pass un-reveals a tracked element whose top is
\* > viewportHeight also when observarUnaVez is true.
C20_OnceIgnoredWhenPolling ==
  /\ [](PositionsMatter => twin = Snapshot(RevealCur(rtop)))
  /\ [][(PositionsMatter /\ PassRan) =>
          \A e \in rself.elementos : TopBelow(e) => e \notin rcls']_vars

\* C20 witness: with observarUnaVez = true a pass has un-revealed an element
\* that an earlier pass had revealed
C20_Witness ==
  /\ PositionsMatter
  /\ rcfg.observarUnaVez
  /\ rhist.op = "frame"
  /\ rhist.hid # {}

=============================================================================
